---- MODULE Spec2Model ----
(***************************************************************************)
(* ShapeElementList of arcade/buffered_draw_commands.py: shapes grouped    *)
(* into batches by (mode, line_width), each batch packed into one vertex   *)
(* buffer and one primitive-restart index buffer, repacked lazily on draw. *)
(***************************************************************************)
EXTENDS Integers, Sequences, FiniteSets, TLC

(* ------------------------------ bounds -------------------------------- *)

\* Longest shape_list explored (append is not taken beyond it).
MaxLen == 2
\* Farthest the translation gets from the origin: center_x + center_y stays
\* within 0 .. MaxCoord (move and the setters are not taken beyond it).
MaxCoord == 1
\* Longest shape_list explored when the line and the outline rectangle are
\* the only shapes appended.
MaxLong == 3

(* ------------------------- shapes (the inputs) ------------------------ *)

\* The Shape objects the caller holds: 1 a create_line, 2 a
\* create_rectangle_outline, 3 a create_rectangle_filled.
Shapes == {1, 2, 3}

\* The same with 4, a create_line of line_width 2: of the line's and the
\* outline rectangle's mode, of no other shape's line_width.
AllShapes == Shapes \cup {4}

\* Bytes of one vertex of the '2f 4B' layout: 2 * 4 + 4 * 1.
Stride == 12

\* shape.mode as set by the constructors: GL_LINE_STRIP for a line and for
\* an outline rectangle, GL_TRIANGLE_STRIP for a filled rectangle.
mode(item) == IF item = 3 THEN "GL_TRIANGLE_STRIP" ELSE "GL_LINE_STRIP"

\* shape.line_width: the line_width or border_width the constructor was
\* given, 1 by default.
line_width(item) == IF item = 4 THEN 2 ELSE 1

\* The number of points the constructor packs: a line has 2, an outline
\* rectangle 5 (closed with its first point), a filled rectangle 4.
num_points(item) ==
  CASE item \in {1, 4} -> 2
    [] item = 2 -> 5
    [] OTHER -> 4

\* shape.vbo.size: len(data.tobytes()) of a '2f4 4B' array of the points.
vbo_size(item) == num_points(item) * Stride

\* shape.vao.num_vertices of a shape built without an index buffer.
num_vertices(item) == vbo_size(item) \div Stride

\* Contents of shape.vbo: byte j of shape item is the pair <<item, j>>.
vbo_data(item) == [j \in 1 .. vbo_size(item) |-> <<item, j>>]

\* A byte of a buffer created with a size and not written yet.
Unwritten == <<0, 0>>

\* The key taken from the mode alone, the line_width left at its default.
group_by_mode(item) == <<mode(item), 1>>

\* group = (item.mode, item.line_width)
group_of(item) == <<mode(item), line_width(item)>>

Groups == {group_of(item) : item \in AllShapes}

(* ------------------------- Python list helpers ------------------------ *)

\* item in lst
Contains(lst, item) == \E i \in 1 .. Len(lst) : lst[i] = item

\* Index of the first occurrence of item in lst (list.index).
FirstIndex(lst, item) ==
  CHOOSE i \in 1 .. Len(lst) :
    lst[i] = item /\ \A j \in 1 .. (i - 1) : lst[j] # item

\* The last occurrence of item deleted.
ListRemoveLast(lst, item) ==
  LET k == CHOOSE i \in 1 .. Len(lst) :
             lst[i] = item /\ \A j \in (i + 1) .. Len(lst) : lst[j] # item
  IN [i \in 1 .. (Len(lst) - 1) |-> IF i < k THEN lst[i] ELSE lst[i + 1]]

\* lst after lst.remove(item), for an item the list contains: the first
\* occurrence is deleted, the rest keeps its order.
ListRemove(lst, item) ==
  LET k == FirstIndex(lst, item)
  IN [i \in 1 .. (Len(lst) - 1) |-> IF i < k THEN lst[i] ELSE lst[i + 1]]

\* Number of occurrences of item in lst.
Count(lst, item) == Cardinality({i \in 1 .. Len(lst) : lst[i] = item})

RECURSIVE SumOver(_, _)
\* sum(f(x) for x in lst), with f given as a function.
SumOver(f, lst) ==
  IF lst = <<>> THEN 0 ELSE f[Head(lst)] + SumOver(f, Tail(lst))

SizeOf == [item \in AllShapes |-> vbo_size(item)]
VerticesOf == [item \in AllShapes |-> num_vertices(item)]

(* ------------------------ buffers and integers ------------------------ *)

\* A Python attribute that holds None (Shape.vbo, Shape.ibo before a pack).
NoBuffer == [buffer_id |-> "None", data |-> <<>>]

\* shader.Buffer holding data.
Buffer(data) == [buffer_id |-> "Buffer", data |-> data]

\* shader.Buffer.create_with_size(size): size bytes, none written.
create_with_size(size) == Buffer([j \in 1 .. size |-> Unwritten])

\* glCopyBufferSubData(READ, WRITE, readOffset, writeOffset, size): size
\* bytes of read, from readOffset on, land in write from writeOffset on.
CopyBufferSubData(read, write, readOffset, writeOffset, size) ==
  [j \in 1 .. Len(write) |->
     IF j > writeOffset /\ j <= writeOffset + size
       THEN read[readOffset + (j - writeOffset)]
       ELSE write[j]]

\* A Python integer below 2^32 is kept as two 16-bit limbs <<hi, lo>>,
\* value hi * 2^16 + lo.
Limb == 2 ^ 16

PyInt(n) == <<n \div Limb, n % Limb>>

\* The largest signed 32-bit integer, 2 ** 31 - 1, as the restart value.
reset_idx_signed == <<Limb \div 2 - 1, Limb - 1>>

\* reset_idx = 2 ** 32 - 1
reset_idx == <<Limb - 1, Limb - 1>>

\* numpy astype('i4') of an integer below 2^32: the low 32 bits read as a
\* signed 32-bit integer.
astype_i4(v) ==
  IF v[1] >= Limb \div 2
    THEN (v[1] - Limb) * Limb + v[2]
    ELSE v[1] * Limb + v[2]

\* The GL_UNSIGNED_INT the device reads from the 4 bytes of an i4.
AsUnsigned(w) ==
  IF w >= 0 THEN PyInt(w)
  ELSE <<(Limb - 1) - ((-(w + 1)) \div Limb),
         (Limb - 1) - ((-(w + 1)) % Limb)>>

\* gl.glPrimitiveRestartIndex(2 ** 32 - 1) in Shape.draw
PrimitiveRestartIndex == <<Limb - 1, Limb - 1>>

(* ------------------------------- state -------------------------------- *)

VARIABLES
  shape_list,   \* self.shape_list: the shapes in append order
  batches,      \* self.batches: group -> _Batch, for the groups created
  batch_keys,   \* the keys of self.batches in insertion (dict) order
  dirties,      \* self.dirties: the groups to repack at the next draw
  center_x,     \* self._center_x
  center_y,     \* self._center_y
  angle,        \* self._angle
  program,      \* the uniforms Position and Angle of self.program
  last,         \* the most recent append, remove or draw: method,
                \* argument, exception raised, order self.dirties was
                \* iterated in
  calls,        \* the packs and batch draw calls that call made
  touched       \* the groups appended to or removed from since the last
                \* draw that returned

vars ==
  <<shape_list, batches, batch_keys, dirties, center_x, center_y, angle,
    program, last, calls, touched>>

\* The fields of the ShapeElementList as one record.
Self ==
  [shape_list |-> shape_list, batches |-> batches, batch_keys |-> batch_keys,
   dirties |-> dirties, center_x |-> center_x, center_y |-> center_y,
   angle |-> angle, program |-> program]

\* Shape(): no vao, no buffers, line_width 1.
NewShape ==
  [vao |-> "None", vbo |-> NoBuffer, ibo |-> NoBuffer, program |-> "None",
   mode |-> "None", line_width |-> 1]

\* _Batch(): a fresh Shape and no items.
NewBatch == [shape |-> NewShape, items |-> <<>>]

\* The key bound to a new _Batch() at every access, present or not.
touch_anew(self, group) ==
  [self EXCEPT !.batches = (group :> NewBatch) @@ self.batches,
               !.batch_keys = IF group \in DOMAIN self.batches
                                THEN @ ELSE Append(@, group)]

\* self.batches[group] on the defaultdict: a missing key is created with
\* _Batch() and becomes the last key of the mapping.
touch(self, group) ==
  IF group \in DOMAIN self.batches
    THEN self
    ELSE [self EXCEPT !.batches = (group :> NewBatch) @@ self.batches,
                      !.batch_keys = Append(self.batch_keys, group)]

\* What a method returns to the model: the object after the call, the
\* exception raised ("None" when it returned) and the calls it made.
Outcome(self, raised, made) == [self |-> self, raised |-> raised, calls |-> made]

(* ------------------------- append and remove -------------------------- *)

\* The dirty set left as it is.
mark_nothing(self, group) == self

\* The key added to the dirty set without its line_width.
mark_dirty_mode(self, group) ==
  [self EXCEPT !.dirties = @ \cup {<<group[1], 0>>}]

\* self.dirties.add(group)
mark_dirty(self, group) == [self EXCEPT !.dirties = @ \cup {group}]

\* ShapeElementList.append(item)
append(self, item) ==
  LET group == group_of(item)
      s1 == [self EXCEPT !.shape_list = Append(self.shape_list, item)]
      s2 == touch(s1, group)
      s3 == [s2 EXCEPT !.batches[group].items = Append(@, item)]
  IN Outcome(mark_dirty(s3, group), "None", <<>>)

\* Every occurrence of item deleted from the member list.
batch_remove_every(items, item) == SelectSeq(items, LAMBDA x : x # item)

\* The last occurrence of item deleted from the member list.
batch_remove_last(items, item) == ListRemoveLast(items, item)

\* self.batches[group].items.remove(item), for an item the list holds.
batch_remove(items, item) == ListRemove(items, item)

\* The batch mapping indexed before the list is searched.
remove_absent_touched(self, item) ==
  Outcome(touch(self, group_of(item)), "ValueError", <<>>)

\* self.shape_list.remove(item) for an item the list does not hold: it
\* raises ValueError and the statements after it are not run.
remove_absent(self, item) == Outcome(self, "ValueError", <<>>)

\* ShapeElementList.remove(item)
remove(self, item) ==
  IF ~Contains(self.shape_list, item)
    THEN remove_absent(self, item)
    ELSE
      LET group == group_of(item)
          s1 == [self EXCEPT !.shape_list = ListRemove(self.shape_list, item)]
          s2 == touch(s1, group)
      IN IF ~Contains(s2.batches[group].items, item)
           THEN Outcome(s2, "ValueError", <<>>)
           ELSE
             LET s3 == [s2 EXCEPT !.batches[group].items = batch_remove(@, item)]
             IN Outcome(mark_dirty(s3, group), "None", <<>>)

(* --------------------------- _refresh_shape --------------------------- *)

\* total_vbo_bytes = sum(s.vbo.size for s in batch.items)
total_vbo_bytes(items) == SumOver(SizeOf, items)

\* The running offset advanced by the shape's vertex count, not its bytes.
next_offset_in_vertices(offset, shape) == offset + num_vertices(shape)

\* offset += shape.vbo.size
next_offset(offset, shape) == offset + vbo_size(shape)

RECURSIVE copy_shapes(_, _, _)
\* The copy loop: each shape's whole vbo is copied into the batch's buffer
\* at the running offset, which then advances by that shape's size.
copy_shapes(items, data, offset) ==
  IF items = <<>>
    THEN data
    ELSE copy_shapes(
           Tail(items),
           CopyBufferSubData(vbo_data(Head(items)), data, 0, offset,
                             vbo_size(Head(items))),
           next_offset(offset, Head(items)))

\* The vbo of a batch: created with the total size, then filled by the loop.
packed_vbo(items) ==
  Buffer(copy_shapes(items, create_with_size(total_vbo_bytes(items)).data, 0))

\* itertools.islice(counter, n) on a count() standing at counter.
islice(counter, n) == [k \in 1 .. n |-> PyInt(counter + k - 1)]

\* What one round of the index loop adds: the shape's indices, then reset_idx.
shape_indices(counter, shape) ==
  Append(islice(counter, num_vertices(shape)), reset_idx)

RECURSIVE build_indices(_, _)
\* The index loop, with the shared counter passed along.
build_indices(items, counter) ==
  IF items = <<>>
    THEN <<>>
    ELSE shape_indices(counter, Head(items))
           \o build_indices(Tail(items), counter + num_vertices(Head(items)))

\* The list with its trailing reset_idx left in place.
keep_last(indices) == indices

\* del indices[-1], for a list that has a last element.
del_last(indices) == SubSeq(indices, 1, Len(indices) - 1)

\* ibo = shader.Buffer(np.array(indices).astype('i4').tobytes()), kept as
\* the sequence of its i4 words.
packed_ibo(indices) ==
  Buffer([k \in 1 .. Len(indices) |-> astype_i4(indices[k])])

\* The program's uniforms hold the transform the object has now.
UniformsCurrent(self) ==
  /\ self.program.Position = <<self.center_x, self.center_y>>
  /\ self.program.Angle = self.angle

\* One pack as the calls of a draw record it.
PackCall(self, group) ==
  [op |-> "pack", group |-> group, dirty |-> group \in self.dirties,
   vao |-> self.batches[group].shape.vao, current |-> UniformsCurrent(self)]

\* ShapeElementList._refresh_shape(group): del indices[-1] raises
\* IndexError on the empty list an empty batch gives, before anything is
\* installed on the batch.
refresh_shape(self, group) ==
  LET s1 == touch(self, group)
      items == s1.batches[group].items
      vbo == packed_vbo(items)
      indices == build_indices(items, 0)
  IN IF indices = <<>>
       THEN Outcome(s1, "IndexError", <<>>)
       ELSE
         LET ibo == packed_ibo(del_last(indices))
             s2 == [s1 EXCEPT !.program =
                      [Position |-> <<s1.center_x, s1.center_y>>,
                       Angle |-> s1.angle]]
             s3 == [s2 EXCEPT !.batches[group].shape =
                      [vao |-> "VertexArray", vbo |-> vbo, ibo |-> ibo,
                       program |-> "program", mode |-> group[1],
                       line_width |-> group[2]]]
         IN Outcome(s3, "None", <<PackCall(s3, group)>>)

\* _refresh_shape at one point of its run: the object, the exception
\* raised so far and the locals vbo and ibo (NoBuffer while not created).
Stage(self, raised, vbo, ibo) ==
  [self |-> self, raised |-> raised, vbo |-> vbo, ibo |-> ibo]

\* The buffer the batch has installed used as the copy target: the members
\* are written over it while the pack is still building.
build_in_place(self, group) ==
  LET s1 == touch(self, group)
      items == s1.batches[group].items
      vbo == packed_vbo(items)
      s2 == [s1 EXCEPT !.batches[group].shape.vbo = vbo]
      indices == build_indices(items, 0)
  IN <<Stage(s2, "None", vbo, NoBuffer)>>
       \o (IF indices = <<>>
             THEN <<Stage(s2, "IndexError", vbo, NoBuffer)>>
             ELSE <<Stage(s2, "None", vbo, packed_ibo(del_last(indices)))>>)

\* The first part of _refresh_shape, statement by statement: the new vbo
\* created, the members copied into it, the index list built and cut, the
\* new ibo created. The batch is read only.
build(self, group) ==
  LET s1 == touch(self, group)
      items == s1.batches[group].items
      indices == build_indices(items, 0)
  IN <<Stage(s1, "None", create_with_size(total_vbo_bytes(items)), NoBuffer),
       Stage(s1, "None", packed_vbo(items), NoBuffer)>>
       \o (IF indices = <<>>
             THEN <<Stage(s1, "IndexError", packed_vbo(items), NoBuffer)>>
             ELSE <<Stage(s1, "None", packed_vbo(items),
                          packed_ibo(del_last(indices)))>>)

\* The second part of _refresh_shape, from a build that did not raise: the
\* uniforms written, then batch.shape.vao, .vbo, .ibo and the remaining
\* attributes assigned one after the other.
install(built, group) ==
  LET s2 == [built.self EXCEPT !.program =
               [Position |-> <<built.self.center_x, built.self.center_y>>,
                Angle |-> built.self.angle]]
      s3 == [s2 EXCEPT !.batches[group].shape.vao = "VertexArray"]
      s4 == [s3 EXCEPT !.batches[group].shape.vbo = built.vbo]
      s5 == [s4 EXCEPT !.batches[group].shape.ibo = built.ibo]
      s6 == [s5 EXCEPT !.batches[group].shape.program = "program",
                       !.batches[group].shape.mode = group[1],
                       !.batches[group].shape.line_width = group[2]]
  IN [k \in 1 .. 5 |->
        Stage((<<s2, s3, s4, s5, s6>>)[k], "None", built.vbo, built.ibo)]

\* _refresh_shape(group) as the sequence of its stages.
refresh_stages(self, group) ==
  LET b == build(self, group)
      built == b[Len(b)]
  IN IF built.raised # "None" THEN b ELSE b \o install(built, group)

(* -------------------------------- draw -------------------------------- *)

\* One batch draw call as the calls of a draw record it: whether the
\* batch's key is dirty, what its vao is and whether the uniforms of its
\* program hold the object's transform when the call is issued.
RenderCall(self, group) ==
  [op |-> "render", group |-> group, dirty |-> group \in self.dirties,
   vao |-> self.batches[group].shape.vao, current |-> UniformsCurrent(self)]

\* Shape.draw() of a batch's shape: `with self.vao` raises on None.
shape_draw(self, group) ==
  IF self.batches[group].shape.vao = "None"
    THEN Outcome(self, "AttributeError", <<>>)
    ELSE Outcome(self, "None", <<RenderCall(self, group)>>)

RECURSIVE refresh_all(_, _, _)
\* for group in self.dirties: self._refresh_shape(group), in the order the
\* set is iterated; an exception ends the loop and the draw.
refresh_all(self, order, made) ==
  IF order = <<>>
    THEN Outcome(self, "None", made)
    ELSE
      LET r == refresh_shape(self, Head(order))
      IN IF r.raised # "None"
           THEN Outcome(r.self, r.raised, made \o r.calls)
           ELSE refresh_all(r.self, Tail(order), made \o r.calls)

RECURSIVE draw_all(_, _, _)
\* for batch in self.batches.values(): batch.shape.draw()
draw_all(self, keys, made) ==
  IF keys = <<>>
    THEN Outcome(self, "None", made)
    ELSE
      LET r == shape_draw(self, Head(keys))
      IN IF r.raised # "None"
           THEN Outcome(r.self, r.raised, made \o r.calls)
           ELSE draw_all(r.self, Tail(keys), made \o r.calls)

\* The dirty set not cleared.
keep_dirties(self) == self

\* self.dirties.clear()
clear_dirties(self) == [self EXCEPT !.dirties = {}]

\* Every batch packed at every draw.
every_batch(self) == DOMAIN self.batches

\* The groups the first loop of draw packs.
to_refresh(self) == self.dirties

\* The dirty set cleared before the dirty batches are packed.
draw_clear_first(self, order) ==
  LET r1 == refresh_all(clear_dirties(self), order, <<>>)
  IN IF r1.raised # "None"
       THEN r1
       ELSE draw_all(r1.self, r1.self.batch_keys, r1.calls)

\* ShapeElementList.draw(), with order the iteration order of self.dirties.
draw(self, order) ==
  LET r1 == refresh_all(self, order, <<>>)
  IN IF r1.raised # "None"
       THEN r1
       ELSE
         LET s2 == clear_dirties(r1.self)
         IN draw_all(s2, s2.batch_keys, r1.calls)

\* The orders in which a set can be iterated.
Orders(S) ==
  {f \in [1 .. Cardinality(S) -> S] :
     \A i, j \in 1 .. Cardinality(S) : i # j => f[i] # f[j]}

(* ------------------------------ transform ----------------------------- *)

\* _center_x assigned and the Position uniform left as it was.
set_center_x_only(self, value) == [self EXCEPT !.center_x = value]

\* ShapeElementList._set_center_x(value)
set_center_x(self, value) ==
  LET s1 == [self EXCEPT !.center_x = value]
  IN [s1 EXCEPT !.program.Position = <<s1.center_x, s1.center_y>>]

\* ShapeElementList._set_center_y(value)
set_center_y(self, value) ==
  LET s1 == [self EXCEPT !.center_y = value]
  IN [s1 EXCEPT !.program.Position = <<s1.center_x, s1.center_y>>]

\* The angle assigned and every batch marked for a repack.
set_angle_repack(self, value) ==
  [self EXCEPT !.angle = value, !.program.Angle = value,
               !.dirties = DOMAIN self.batches]

\* ShapeElementList._set_angle(value)
set_angle(self, value) ==
  LET s1 == [self EXCEPT !.angle = value]
  IN [s1 EXCEPT !.program.Angle = s1.angle]

\* The arguments assigned to the centre, not added to it.
move_to(self, change_x, change_y) ==
  set_center_y(set_center_x(self, change_x), change_y)

\* ShapeElementList.move(change_x, change_y)
move(self, change_x, change_y) ==
  LET s1 == set_center_x(self, self.center_x + change_x)
  IN set_center_y(s1, s1.center_y + change_y)

(* ------------------------- length and iteration ----------------------- *)

\* ShapeElementList.__len__()
len(self) == Len(self.shape_list)

\* ShapeElementList.__iter__(): the shapes the iterator yields, in order.
iter(self) == self.shape_list

\* ShapeElementList.__getitem__(i) for an index of the list: Python counts
\* from 0, and from the end for a negative index.
getitem(self, i) ==
  IF i >= 0
    THEN self.shape_list[i + 1]
    ELSE self.shape_list[Len(self.shape_list) + i + 1]

(* ------------------------------- actions ------------------------------ *)

\* ShapeElementList(): empty list, no batch, nothing dirty, transform zero.
Init ==
  /\ shape_list = <<>>
  /\ batches = <<>>
  /\ batch_keys = <<>>
  /\ dirties = {}
  /\ center_x = 0
  /\ center_y = 0
  /\ angle = 0
  /\ program = [Position |-> <<0, 0>>, Angle |-> 0]
  /\ last = [op |-> "init", item |-> 0, raised |-> "None", order |-> <<>>]
  /\ calls = <<>>
  /\ touched = {}

\* The fields of the object after a call that left it as self.
Fields(self) ==
  /\ center_x' = self.center_x
  /\ center_y' = self.center_y
  /\ angle' = self.angle
  /\ program' = self.program
  /\ shape_list' = self.shape_list
  /\ batch_keys' = self.batch_keys
  /\ dirties' = self.dirties
  /\ batches' = self.batches

\* The state after an append, remove or draw that ended as r.
Return(op, item, order, r) ==
  /\ Fields(r.self)
  /\ last' = [op |-> op, item |-> item, raised |-> r.raised, order |-> order]
  /\ calls' = r.calls

\* The state after a move or an assignment to center_x, center_y or angle
\* that left the object as self.
Assigned(self) ==
  /\ Fields(self)
  /\ UNCHANGED <<last, calls, touched>>

\* The step of append(item).
AppendStep(item) ==
  /\ Return("append", item, <<>>, append(Self, item))
  /\ touched' = touched \cup {group_of(item)}

\* The step of remove(item).
RemoveStep(item) ==
  LET r == remove(Self, item)
  IN /\ Return("remove", item, <<>>, r)
     /\ touched' = IF r.raised = "None"
                     THEN touched \cup {group_of(item)}
                     ELSE touched

\* The orders the first loop of draw can take: any order of the set, and
\* the order of the previous draw when that draw raised and nothing was
\* appended or removed since (a set that was not modified is iterated in the
\* same order again).
DrawOrders ==
  IF last.op = "draw" /\ last.raised # "None"
    THEN {last.order}
    ELSE Orders(to_refresh(Self))

\* The step of draw() iterating self.dirties in order.
DrawStep(order) ==
  LET r == draw(Self, order)
  IN /\ Return("draw", 0, order, r)
     /\ touched' = IF r.raised = "None" THEN {} ELSE touched

OpAppend ==
  \E item \in Shapes :
    /\ Len(shape_list) < MaxLen
    /\ AppendStep(item)

OpRemove ==
  \E item \in Shapes : RemoveStep(item)

OpDraw ==
  \E order \in DrawOrders : DrawStep(order)

\* The values center_x and center_y take.
Coords == 0 .. MaxCoord

\* The translations explored.
InRange(x, y) == x \in Coords /\ y \in Coords /\ x + y <= MaxCoord

\* The values assigned to angle.
Angles == {0, 90}

OpMove ==
  \E change_x, change_y \in {-1, 0, 1} :
    /\ InRange(center_x + change_x, center_y + change_y)
    /\ Assigned(move(Self, change_x, change_y))

OpSetCenterX ==
  \E value \in Coords :
    /\ InRange(value, center_y)
    /\ Assigned(set_center_x(Self, value))

OpSetCenterY ==
  \E value \in Coords :
    /\ InRange(center_x, value)
    /\ Assigned(set_center_y(Self, value))

OpSetAngle ==
  \E value \in Angles : Assigned(set_angle(Self, value))

Next ==
  \/ OpAppend
  \/ OpRemove
  \/ OpDraw
  \/ OpMove
  \/ OpSetCenterX
  \/ OpSetCenterY
  \/ OpSetAngle

Spec == Init /\ [][Next]_vars

\* append with the shape of line_width 2 among the arguments, of a shape
\* the collection does not hold yet.
OpAppendAny ==
  \E item \in AllShapes :
    /\ Len(shape_list) < MaxLen
    /\ ~Contains(shape_list, item)
    /\ AppendStep(item)

OpRemoveAny ==
  \E item \in AllShapes : RemoveStep(item)

NextKeys ==
  \/ OpAppendAny
  \/ OpRemoveAny
  \/ OpDraw

NextMoves ==
  \/ OpAppend
  \/ OpRemove
  \/ OpDraw
  \/ OpMove
  \/ OpSetAngle

\* The collection translated by move alone: center_x and center_y are not
\* assigned.
SpecMoves == Init /\ [][NextMoves]_vars

\* append of the line or the outline rectangle, to the longer bound.
OpAppendLong ==
  \E item \in {1, 2} :
    /\ Len(shape_list) < MaxLong
    /\ AppendStep(item)

NextOrder ==
  \/ OpAppendLong
  \/ OpRemove
  \/ OpDraw
  \/ OpMove
  \/ OpSetCenterX
  \/ OpSetCenterY
  \/ OpSetAngle

\* The collection holding the line and the outline rectangle, each any
\* number of times: long enough for a shape to lie between two occurrences
\* of another.
SpecOrder == Init /\ [][NextOrder]_vars

\* append of any of the three shapes, to the longer bound.
OpAppendMixed ==
  \E item \in Shapes :
    /\ Len(shape_list) < MaxLong
    /\ AppendStep(item)

NextMirror ==
  \/ OpAppendMixed
  \/ OpRemove
  \/ OpDraw

\* The collection appended to, removed from and drawn, holding shapes of
\* two keys: long enough for members of one batch to lie around a shape of
\* another and around each other.
SpecMirror == Init /\ [][NextMirror]_vars

\* The collection appended to, removed from and drawn, with shapes of three
\* keys: two keys differ in the mode alone, two in the line_width alone.
SpecKeys == Init /\ [][NextKeys]_vars

(* ------------------------- the packed buffers ------------------------- *)

\* The step is append(item). The conjuncts before AppendStep follow from it;
\* they spare evaluating the call on the steps that are no append.
IsAppend(item) ==
  /\ last'.op = "append"
  /\ last'.item = item
  /\ AppendStep(item)

\* The step is remove(item).
IsRemove(item) ==
  /\ last'.op = "remove"
  /\ last'.item = item
  /\ RemoveStep(item)

\* The step is draw(), iterating the dirty set in order.
IsDraw(order) ==
  /\ last'.op = "draw"
  /\ last'.order = order
  /\ UNCHANGED <<shape_list, center_x, center_y, angle>>
  /\ DrawStep(order)

\* The groups the most recent draw packed.
PackedGroups ==
  {calls[k].group : k \in {n \in 1 .. Len(calls) : calls[n].op = "pack"}}

\* The groups the most recent draw issued a batch draw call for.
RenderedGroups ==
  {calls[k].group : k \in {n \in 1 .. Len(calls) : calls[n].op = "render"}}

\* Sum of the byte sizes of the members before member i.
ByteOffset(items, i) == SumOver(SizeOf, SubSeq(items, 1, i - 1))

\* Sum of the vertex counts of the members before member i.
VertexOffset(items, i) == SumOver(VerticesOf, SubSeq(items, 1, i - 1))

\* The index stream as the device reads it: unsigned 32-bit words.
DeviceIndices(ibo) == [k \in 1 .. Len(ibo.data) |-> AsUnsigned(ibo.data[k])]

RECURSIVE SplitOn(_, _)
\* The runs of seq between occurrences of sep (one more than the
\* occurrences: a trailing sep leaves an empty last run).
SplitOn(seq, sep) ==
  IF ~Contains(seq, sep)
    THEN <<seq>>
    ELSE LET k == FirstIndex(seq, sep)
         IN <<SubSeq(seq, 1, k - 1)>> \o SplitOn(SubSeq(seq, k + 1, Len(seq)), sep)

\* C1. Offset consistency: the vertex buffer of a batch just packed is as
\* long as its members' vbo sizes together, and member i's bytes lie at the
\* byte offset that is the sum of the sizes of the members before it.
C1_OffsetConsistency ==
  \A g \in PackedGroups :
    LET items == batches[g].items
        data == batches[g].shape.vbo.data
    IN /\ Len(data) = SumOver(SizeOf, items)
       /\ \A i \in 1 .. Len(items) :
            \A j \in 1 .. vbo_size(items[i]) :
              data[ByteOffset(items, i) + j] = vbo_data(items[i])[j]

\* A draw has packed the batch of the line and the outline rectangle: the
\* second member starts at byte 24.
C1_Witness ==
  \E g \in PackedGroups :
    /\ batches[g].items = <<1, 2>>
    /\ ByteOffset(batches[g].items, 2) = 2 * Stride
    /\ batches[g].shape.vbo.data[2 * Stride + 1] = <<2, 1>>

\* C2. Index monotonicity and restart placement: the index stream of a batch
\* just packed, split on the restart index, is one run per member; run i has
\* the member's vertex count and counts up from the number of vertices
\* before it; the stream does not end in a restart index.
C2_IndexRuns ==
  \A g \in PackedGroups :
    LET items == batches[g].items
        stream == DeviceIndices(batches[g].shape.ibo)
        runs == SplitOn(stream, PrimitiveRestartIndex)
    IN /\ Len(runs) = Len(items)
       /\ \A i \in 1 .. Len(items) :
            /\ Len(runs[i]) = num_vertices(items[i])
            /\ \A k \in 1 .. Len(runs[i]) :
                 runs[i][k] = PyInt(VertexOffset(items, i) + k - 1)
       /\ stream # <<>>
       /\ stream[Len(stream)] # PrimitiveRestartIndex

\* The 2-vertex line and the 5-vertex outline rectangle packed together:
\* [0, 1, RESTART, 2, 3, 4, 5, 6].
C2_Witness ==
  \E g \in PackedGroups :
    /\ batches[g].items = <<1, 2>>
    /\ DeviceIndices(batches[g].shape.ibo) =
         <<PyInt(0), PyInt(1), PrimitiveRestartIndex,
           PyInt(2), PyInt(3), PyInt(4), PyInt(5), PyInt(6)>>

(* ------------------------- dirtiness and draw ------------------------- *)

RECURSIVE ExpectedBytes(_)
\* The members' vertex bytes one after the other.
ExpectedBytes(items) ==
  IF items = <<>> THEN <<>>
  ELSE vbo_data(Head(items)) \o ExpectedBytes(Tail(items))

RECURSIVE ExpectedStream(_, _)
\* The members' vertex indices counting up from start, a restart index
\* between two members.
ExpectedStream(items, start) ==
  IF items = <<>> THEN <<>>
  ELSE [k \in 1 .. num_vertices(Head(items)) |-> PyInt(start + k - 1)]
         \o (IF Tail(items) = <<>> THEN <<>> ELSE <<PrimitiveRestartIndex>>)
         \o ExpectedStream(Tail(items), start + num_vertices(Head(items)))

\* The batch of group g holds installed buffers that are the pack of its
\* member list as it is now.
PackedAsIs(g) ==
  LET b == batches[g]
  IN /\ b.items # <<>>
     /\ b.shape.vao # "None"
     /\ b.shape.vbo.buffer_id # "None"
     /\ b.shape.ibo.buffer_id # "None"
     /\ b.shape.vbo.data = ExpectedBytes(b.items)
     /\ DeviceIndices(b.shape.ibo) = ExpectedStream(b.items, 0)

\* C3. Dirty invariant: in every state reached by append, remove, move,
\* assignments to the transform and draw, a batch whose key is not in the
\* dirty set holds installed buffers that are the pack of its current
\* members in their current order.
C3_DirtyInvariant ==
  \A g \in DOMAIN batches : g \notin dirties => PackedAsIs(g)

\* After an append, one batch is clean and packed while another is dirty.
C3_Witness ==
  /\ last.op = "append"
  /\ \E g, h \in DOMAIN batches :
       g \notin dirties /\ h \in dirties /\ PackedAsIs(g)

\* C4 as stated. Bijection: every shape of shape_list is in the member list
\* of exactly one batch, exactly once there, and every batch member is in
\* shape_list.
C4_Bijection ==
  /\ \A i \in 1 .. Len(shape_list) :
       LET s == shape_list[i]
           holders == {g \in DOMAIN batches : Contains(batches[g].items, s)}
       IN /\ Cardinality(holders) = 1
          /\ \A g \in holders : Count(batches[g].items, s) = 1
  /\ \A g \in DOMAIN batches :
       \A k \in 1 .. Len(batches[g].items) :
         Contains(shape_list, batches[g].items[k])

\* C4 as amended. Every shape of shape_list is in the member list of exactly
\* one batch, as many times there as in shape_list, and every batch member
\* is in shape_list.
C4_BijectionCounted ==
  /\ \A i \in 1 .. Len(shape_list) :
       LET s == shape_list[i]
           holders == {g \in DOMAIN batches : Contains(batches[g].items, s)}
       IN /\ Cardinality(holders) = 1
          /\ \A g \in holders :
               Count(batches[g].items, s) = Count(shape_list, s)
  /\ \A g \in DOMAIN batches :
       \A k \in 1 .. Len(batches[g].items) :
         Contains(shape_list, batches[g].items[k])

\* The same shape appended twice, then one of the two removed again.
C4_Witness ==
  /\ last.op = "remove"
  /\ last.raised = "None"
  /\ \E s \in Shapes : Count(shape_list, s) = 1 /\ last.item = s

\* C5 as stated. Empty batch: a draw with a batch of zero members returns,
\* leaves that batch with a zero-length vertex buffer and a zero-length
\* index buffer, clears its dirty mark and issues its (no-op) draw call.
C5_EmptyBatchDraw ==
  last.op = "draw" =>
    \A g \in DOMAIN batches :
      batches[g].items = <<>> =>
        /\ last.raised = "None"
        /\ batches[g].shape.vbo = Buffer(<<>>)
        /\ batches[g].shape.ibo = Buffer(<<>>)
        /\ g \notin dirties
        /\ g \in RenderedGroups

\* C6. remove of a shape the collection does not hold raises the not-found
\* error and leaves shape_list, every batch, the set of batches and the
\* dirty set as they were.
C6_RemoveAbsent ==
  [][\A item \in Shapes :
       (~Contains(shape_list, item) /\ IsRemove(item)) =>
         /\ last'.raised = "ValueError"
         /\ UNCHANGED <<shape_list, batches, batch_keys, dirties>>]_vars

\* A remove has failed on a collection that holds other shapes and has no
\* batch for the removed shape's key.
C6_Witness ==
  /\ last.op = "remove"
  /\ last.raised = "ValueError"
  /\ shape_list # <<>>
  /\ group_of(last.item) \notin DOMAIN batches

\* The number of calls of kind op the most recent draw made for group g.
CallCount(made, op, g) ==
  Cardinality({k \in 1 .. Len(made) : made[k].op = op /\ made[k].group = g})

\* C7 as stated. Every draw packs each dirty batch once and no other,
\* empties the dirty set, then issues one draw call for every batch.
C7_DrawSequencing ==
  [][\A order \in DrawOrders :
       IsDraw(order) =>
         /\ \A g \in DOMAIN batches :
              CallCount(calls', "pack", g) = (IF g \in dirties THEN 1 ELSE 0)
         /\ dirties' = {}
         /\ \A g \in DOMAIN batches : CallCount(calls', "render", g) = 1
         /\ \A k, l \in 1 .. Len(calls') :
              (calls'[k].op = "pack" /\ calls'[l].op = "render") => k < l]_vars

\* C8. Pack before draw: no batch draw call is issued for a batch whose key
\* is dirty or whose buffers were never installed, and no pack of a draw
\* comes after one of its batch draw calls.
C8_PackBeforeDraw ==
  \A k \in 1 .. Len(calls) :
    calls[k].op = "render" =>
      /\ ~calls[k].dirty
      /\ calls[k].vao # "None"
      /\ \A l \in (k + 1) .. Len(calls) : calls[l].op # "pack"

\* A draw has packed a batch and issued the draw calls of two batches.
C8_Witness ==
  /\ PackedGroups # {}
  /\ Cardinality(RenderedGroups) = 2

\* C9 as stated. Incremental rebuild: append and remove add only the
\* shape's own key to the dirty set and change only that key's batch; a draw
\* repacks exactly the batches appended to or removed from since the last
\* draw that returned, and leaves the installed buffers of the others.
C9_IncrementalRebuild ==
  [][/\ \A item \in Shapes :
          (IsAppend(item) \/ (Contains(shape_list, item) /\ IsRemove(item)))
            => /\ dirties' = dirties \cup {group_of(item)}
               /\ \A g \in DOMAIN batches' \ {group_of(item)} :
                    g \in DOMAIN batches /\ batches'[g] = batches[g]
     /\ \A order \in DrawOrders :
          IsDraw(order) =>
            /\ PackedGroups' = touched
            /\ \A g \in DOMAIN batches \ touched :
                 batches'[g].shape = batches[g].shape]_vars

\* C10. Idempotent redundant pack: a draw with nothing dirty packs nothing
\* and leaves every batch as it was, and a draw that follows a draw with no
\* append or remove in between leaves the object as the first left it.
C10_RedundantDraw ==
  [][\A order \in DrawOrders :
       IsDraw(order) =>
         /\ dirties = {} => (PackedGroups' = {} /\ batches' = batches)
         /\ last.op = "draw" =>
              UNCHANGED <<shape_list, batches, batch_keys, dirties,
                          center_x, center_y, angle, program>>]_vars

\* A draw with nothing dirty has run on a collection with packed batches:
\* it packed nothing and issued the draw calls.
C10_Witness ==
  /\ last.op = "draw"
  /\ last.raised = "None"
  /\ PackedGroups = {}
  /\ RenderedGroups # {}
  /\ \A g \in RenderedGroups : PackedAsIs(g)

(* ------------------------------ grouping ------------------------------ *)

\* C11. Grouping by key: every member of the batch of key k has
\* (mode, line_width) = k, and two shapes of the collection are members of
\* one batch exactly when their (mode, line_width) pairs are equal.
C11_GroupingByKey ==
  /\ \A g \in DOMAIN batches :
       \A k \in 1 .. Len(batches[g].items) :
         LET s == batches[g].items[k]
         IN g = <<mode(s), line_width(s)>>
  /\ \A i, j \in 1 .. Len(shape_list) :
       LET s == shape_list[i]
           t == shape_list[j]
       IN (\E g \in DOMAIN batches :
             Contains(batches[g].items, s) /\ Contains(batches[g].items, t))
            <=> (mode(s) = mode(t) /\ line_width(s) = line_width(t))

\* The collection holds two lines that differ in line_width alone, and
\* they are members of different batches.
C11_Witness ==
  \E i, j \in 1 .. Len(shape_list) :
    LET s == shape_list[i]
        t == shape_list[j]
    IN /\ mode(s) = mode(t)
       /\ line_width(s) # line_width(t)
       /\ \E g, h \in DOMAIN batches :
            g # h /\ Contains(batches[g].items, s)
                  /\ Contains(batches[h].items, t)

\* C12. Batch retention: no operation takes a key out of the batch mapping;
\* the remove of a batch's last member leaves the key in the mapping with
\* an empty member list; an append of a shape whose key is in the mapping
\* adds no key and extends the member list of the batch already there,
\* which keeps its installed buffers.
C12_BatchRetention ==
  [][/\ DOMAIN batches \subseteq DOMAIN batches'
     /\ \A item \in Shapes :
          LET g == group_of(item)
          IN /\ (/\ g \in DOMAIN batches
                 /\ batches[g].items = <<item>>
                 /\ IsRemove(item))
                  => (g \in DOMAIN batches' /\ batches'[g].items = <<>>)
             /\ (g \in DOMAIN batches /\ IsAppend(item))
                  => /\ batch_keys' = batch_keys
                     /\ batches'[g].items = Append(batches[g].items, item)
                     /\ batches'[g].shape = batches[g].shape]_vars

\* An append has made a shape the only member of a batch that holds
\* installed buffers: the batch was packed with members, emptied by remove
\* and kept.
C12_Witness ==
  /\ last.op = "append"
  /\ LET g == group_of(last.item)
     IN /\ batches[g].items = <<last.item>>
        /\ batches[g].shape.vao # "None"

(* ------------------------------ transform ----------------------------- *)

\* The step is a move or an assignment to center_x, center_y or angle.
IsTransform == OpMove \/ OpSetCenterX \/ OpSetCenterY \/ OpSetAngle

\* C13. Transform operations do not touch the batching state: move and the
\* assignments to center_x, center_y and angle leave shape_list, the batch
\* mapping with every member list and every installed buffer, and the
\* dirty set as they were.
C13_TransformKeepsBatching ==
  [][IsTransform => UNCHANGED <<shape_list, batches, batch_keys, dirties>>]_vars

\* The collection is translated and rotated while it holds a packed batch
\* that is clean and a batch that is dirty.
C13_Witness ==
  /\ center_x + center_y # 0
  /\ angle # 0
  /\ \E g, h \in DOMAIN batches :
       g \notin dirties /\ PackedAsIs(g) /\ h \in dirties

\* C14. move accumulates, rotation replaces: the transform starts at
\* (0, 0) and angle 0; a move by (dx, dy) adds dx to center_x and dy to
\* center_y and keeps angle; an assignment to angle makes angle the value
\* assigned and keeps the centre; append, remove and draw keep all three.
\* So center_x and center_y are the sums of the moves made and angle is the
\* value assigned last.
C14_MoveAccumulates ==
  /\ (center_x = 0 /\ center_y = 0 /\ angle = 0)
  /\ [][/\ \A dx, dy \in {-1, 0, 1} :
            Assigned(move(Self, dx, dy)) =>
              /\ center_x' = center_x + dx
              /\ center_y' = center_y + dy
              /\ angle' = angle
        /\ \A value \in Angles :
            Assigned(set_angle(Self, value)) =>
              /\ angle' = value
              /\ UNCHANGED <<center_x, center_y>>
        /\ ~(OpMove \/ OpSetAngle) =>
              UNCHANGED <<center_x, center_y, angle>>]_vars

\* The collection has been moved off the origin and rotated, and a draw
\* has packed a batch since.
C14_Witness ==
  /\ center_x + center_y = 1
  /\ angle = 90
  /\ last.op = "draw"
  /\ PackedGroups # {}

\* C15. Latest transform at draw: when a batch draw call is issued, the
\* Position and Angle uniforms of the program it runs with are the
\* object's center_x, center_y and angle of that moment.
C15_LatestTransformAtDraw ==
  \A k \in 1 .. Len(calls) : calls[k].op = "render" => calls[k].current

\* A draw of a translated and rotated collection that packed nothing has
\* issued a batch draw call: the uniforms it ran with were written by move
\* or the setters.
C15_Witness ==
  /\ last.op = "draw"
  /\ last.raised = "None"
  /\ PackedGroups = {}
  /\ RenderedGroups # {}
  /\ center_x + center_y # 0
  /\ angle # 0
  /\ UniformsCurrent(Self)

(* ------------------------- length and iteration ----------------------- *)

\* The step is an append, or a remove that returned.
IsListChange ==
  \E item \in Shapes :
    IsAppend(item) \/ (last'.raised = "None" /\ IsRemove(item))

\* C16. Length and iteration: the collection starts empty; an append puts
\* the shape at the end of what iteration yields and adds one to len(); a
\* remove that returns deletes the first occurrence of the shape, keeps the
\* order of the rest and takes one from len(); every other step (a remove
\* that raises, move, the assignments to the transform, draw) leaves both;
\* and lst[i] is the shape iteration yields at place i.
C16_LengthAndIteration ==
  /\ len(Self) = 0
  /\ [](\A i \in 0 .. len(Self) - 1 :
          /\ getitem(Self, i) = iter(Self)[i + 1]
          /\ getitem(Self, i - len(Self)) = iter(Self)[i + 1])
  /\ [][/\ \A item \in Shapes :
            /\ IsAppend(item) =>
                 /\ iter(Self)' = iter(Self) \o <<item>>
                 /\ len(Self)' = len(Self) + 1
            /\ (last'.raised = "None" /\ IsRemove(item)) =>
                 /\ \E k \in 1 .. len(Self) :
                      /\ iter(Self)[k] = item
                      /\ \A j \in 1 .. (k - 1) : iter(Self)[j] # item
                      /\ iter(Self)' = SubSeq(iter(Self), 1, k - 1)
                                         \o SubSeq(iter(Self), k + 1, len(Self))
                 /\ len(Self)' = len(Self) - 1
        /\ ~IsListChange =>
              (iter(Self)' = iter(Self) /\ len(Self)' = len(Self))]_vars

\* A remove has deleted the first of two occurrences of the line, with the
\* rectangle between them: the batch still holds the buffer packed from
\* line, rectangle, line.
C16_Witness ==
  /\ last.op = "remove"
  /\ last.raised = "None"
  /\ last.item = 1
  /\ iter(Self) = <<2, 1>>
  /\ batches[group_of(1)].shape.vbo.data = ExpectedBytes(<<1, 2, 1>>)

(* ------------------------------- failure ------------------------------ *)

\* The installed buffers of a batch's Shape.
Installed(shape) == <<shape.vao, shape.vbo, shape.ibo>>

\* C17 as stated. All-or-nothing: an append, remove or draw that raises
\* leaves shape_list, the member list of every batch and the installed
\* buffers of every batch exactly as they were before the call.
C17_AllOrNothing ==
  [][(/\ last'.raised # "None"
      /\ \/ \E item \in Shapes : IsAppend(item) \/ IsRemove(item)
         \/ \E order \in DrawOrders : IsDraw(order))
       => /\ shape_list' = shape_list
          /\ \A g \in DOMAIN batches :
               /\ batches'[g].items = batches[g].items
               /\ Installed(batches'[g].shape) = Installed(batches[g].shape)]_vars

\* C18. Replace, not mutate: at every stage of a pack of a batch, each of
\* the batch's installed vbo and ibo is the one installed before the pack
\* or the new one of this pack; a new one is installed only when both the
\* new vbo and the new ibo are completely built; and a pack that raises
\* ends with the batch holding the buffers installed before it. The stages
\* end as _refresh_shape ends.
C18_ReplaceNotMutate ==
  \A g \in DOMAIN batches :
    LET st == refresh_stages(Self, g)
        items == batches[g].items
        old == batches[g].shape
        end == st[Len(st)]
    IN /\ \A k \in 1 .. Len(st) :
            LET now == st[k].self.batches[g].shape
            IN /\ now.vbo \in {old.vbo, st[k].vbo}
               /\ now.ibo \in {old.ibo, st[k].ibo}
               /\ Installed(now) # Installed(old) =>
                    /\ st[k].raised = "None"
                    /\ st[k].vbo = Buffer(ExpectedBytes(items))
                    /\ st[k].ibo.buffer_id # "None"
                    /\ DeviceIndices(st[k].ibo) = ExpectedStream(items, 0)
               /\ st[k].raised # "None" => Installed(now) = Installed(old)
       /\ end.self = refresh_shape(Self, g).self
       /\ end.raised = refresh_shape(Self, g).raised

\* A pack has raised on a batch that holds buffers packed from earlier
\* members: the batch, emptied since, still holds them.
C18_Witness ==
  /\ last.op = "draw"
  /\ last.raised = "IndexError"
  /\ \E g \in dirties :
       /\ batches[g].items = <<>>
       /\ batches[g].shape.vao # "None"
       /\ batches[g].shape.vbo.data # <<>>
       /\ refresh_stages(Self, g)[3].raised = "IndexError"

(* ------------------------------ the sentinel -------------------------- *)

\* Vertex indices at the edges of the range a batch of fewer than 2^32 - 1
\* vertices can emit (0 .. 2^32 - 3): around 0, around 2^16, around 2^31
\* (where the i4 turns negative) and up to 2^32 - 2 and 2^32 - 3.
IndexSamples ==
  {<<hi, lo>> : hi \in {0, 1, Limb \div 2 - 1, Limb \div 2, Limb - 1},
                lo \in {0, 1, Limb \div 2, Limb - 3, Limb - 2, Limb - 1}}
    \ {<<Limb - 1, Limb - 1>>}

\* The places of seq that hold x.
Places(seq, x) == {k \in 1 .. Len(seq) : seq[k] = x}

\* C19. The sentinel never collides: reset_idx narrowed to an i4 is -1,
\* whose 32 bits read as an unsigned word are 2^32 - 1, the primitive
\* restart index set at draw; a vertex index below 2^32 - 1 keeps its 32
\* bits through the narrowing and so is no restart index; and in the index
\* buffer of a batch just packed the restart index stands at one place
\* less than the batch has members, all other words being the vertex
\* indices.
C19_SentinelNeverCollides ==
  /\ astype_i4(reset_idx) = -1
  /\ AsUnsigned(astype_i4(reset_idx)) = PrimitiveRestartIndex
  /\ \A v \in IndexSamples :
       /\ AsUnsigned(astype_i4(v)) = v
       /\ AsUnsigned(astype_i4(v)) # PrimitiveRestartIndex
  /\ \A g \in PackedGroups :
       LET items == batches[g].items
           raw == batches[g].shape.ibo.data
           stream == DeviceIndices(batches[g].shape.ibo)
       IN /\ Len(stream) = SumOver(VerticesOf, items) + Len(items) - 1
          /\ Cardinality(Places(raw, -1)) = Len(items) - 1
          /\ Places(stream, PrimitiveRestartIndex) = Places(raw, -1)
          /\ \A k \in 1 .. Len(stream) :
               k \notin Places(raw, -1) =>
                 stream[k][1] = 0 /\ stream[k][2] < SumOver(VerticesOf, items)

\* A draw has packed a batch of two members: its index buffer holds the
\* word -1 once, between the two runs of vertex indices.
C19_Witness ==
  \E g \in PackedGroups :
    /\ Len(batches[g].items) = 2
    /\ Cardinality(Places(batches[g].shape.ibo.data, -1)) = 1

(* ----------------------------- member order --------------------------- *)

\* The shapes of lst whose key is g, in the order and number lst has them.
OfKey(lst, g) == SelectSeq(lst, LAMBDA s : <<mode(s), line_width(s)>> = g)

\* C20. Member order mirrors shape_list: the key of every shape of
\* shape_list has a batch, and the member list of the batch of key k is the
\* subsequence of shape_list of the shapes of key k, in the same order and
\* as many times each; so in every state, the states a draw leaves
\* included.
C20_MemberOrderMirrors ==
  /\ \A i \in 1 .. Len(shape_list) :
       <<mode(shape_list[i]), line_width(shape_list[i])>> \in DOMAIN batches
  /\ \A g \in DOMAIN batches : batches[g].items = OfKey(shape_list, g)

\* A draw has packed both batches of a collection that holds the line
\* twice with the filled rectangle between: the line's batch holds the
\* line twice.
C20_Witness ==
  /\ last.op = "draw"
  /\ last.raised = "None"
  /\ shape_list = <<1, 3, 1>>
  /\ Cardinality(PackedGroups) = 2
  /\ \E g \in PackedGroups : batches[g].items = <<1, 1>>

(* --------------------------- the batch mapping ------------------------ *)

\* C21. Batches are created only by append: the mapping starts without
\* keys; an append adds the (mode, line_width) of its shape to the keys and
\* no other; no other step (a remove, failing or not, a draw, a move, an
\* assignment to the transform) changes the set of keys. So the keys are
\* those of the shapes ever appended. In every state the dirty set and the
\* keys of the shapes of shape_list lie within the keys of the mapping.
C21_BatchesOnlyByAppend ==
  /\ DOMAIN batches = {}
  /\ [](/\ dirties \subseteq DOMAIN batches
        /\ \A i \in 1 .. Len(shape_list) :
             <<mode(shape_list[i]), line_width(shape_list[i])>>
               \in DOMAIN batches
        /\ {batch_keys[k] : k \in 1 .. Len(batch_keys)} = DOMAIN batches)
  /\ [][/\ \A item \in Shapes :
            IsAppend(item) =>
              DOMAIN batches' =
                DOMAIN batches \cup {<<mode(item), line_width(item)>>}
        /\ ~(\E item \in Shapes : IsAppend(item)) =>
              DOMAIN batches' = DOMAIN batches]_vars

\* A remove of a shape whose key was never appended has failed after a
\* draw packed the only batch: the mapping still has that one key.
C21_Witness ==
  /\ last.op = "remove"
  /\ last.raised = "ValueError"
  /\ Cardinality(DOMAIN batches) = 1
  /\ group_of(last.item) \notin DOMAIN batches
  /\ dirties = {}
  /\ \A g \in DOMAIN batches : PackedAsIs(g)

\* C22. A failed draw loses no dirtiness: a draw that raises leaves the
\* dirty set as it was and issues no batch draw call, and the batches
\* appended to or removed from since the last draw that returned stay
\* recorded as such; every such batch is dirty in every state, and a draw
\* that returns packs every one of them.
C22_FailedDrawKeepsDirty ==
  /\ [](touched \subseteq dirties)
  /\ [][\A order \in DrawOrders :
          IsDraw(order) =>
            /\ last'.raised # "None" =>
                 /\ dirties' = dirties
                 /\ RenderedGroups' = {}
                 /\ touched' = touched
            /\ last'.raised = "None" => touched \subseteq PackedGroups']_vars

\* A draw has raised after packing one of two batches changed since the
\* last draw that returned: both keys are still dirty and no batch draw
\* call was issued.
C22_Witness ==
  /\ last.op = "draw"
  /\ last.raised = "IndexError"
  /\ Cardinality(touched) = 2
  /\ Cardinality(PackedGroups) = 1
  /\ PackedGroups \subseteq dirties
  /\ touched \subseteq dirties
  /\ RenderedGroups = {}

====
